---- MODULE Spec2Model ----
(***************************************************************************)
(* OPay simulator backend (src/backend/server.js): an Express server whose *)
(* four handlers read the whole JSON database file, mutate the parsed      *)
(* object and write the whole file back.  Every handler is synchronous     *)
(* (fs.readFileSync / fs.writeFileSync, no await), so Node runs each one   *)
(* to completion before the next request's handler starts: one action per  *)
(* handler.  Concurrent requests are handled in an arbitrary order.        *)
(*                                                                         *)
(* The React client (src/unnamed/part_000) keeps its session in            *)
(* localStorage and in component state; its async handlers yield at every  *)
(* await, so each one is an action per stretch between two awaits.         *)
(***************************************************************************)
EXTENDS Integers, Sequences, FiniteSets, TLC

\* ------------------------------------------------------------------ bounds
\* Records db.json holds, accounts and their transactions together: a request
\* that would store more is not sent.
MaxRecords == 8
\* Largest value the millisecond clock (Date.now) takes.
MaxClock == 1
\* Storage failures (an error of a read or of a write, a crash during a
\* write) in one run of the server.
MaxFaults == 1

\* -------------------------------------------------------- program constants
DefaultBonus == 5000
ReferralBonus == 1000000
CheatBonus == 10000000

\* ------------------------------------------------------------ input domains
\* A field absent from the request body (JavaScript undefined).
Undefined == "<undefined>"
\* Usernames of requests; signups ask for one of NewUsernames.
Usernames == {"ada", "bob", "cy"}
NewUsernames == {"ada", "bob"}
Passwords == {"pw"}
\* A password no signup chooses.
OtherPassword == "qw"
\* Keys every JavaScript object inherits from Object.prototype: db.users[key]
\* is truthy for them although db.users has no such key of its own.
PrototypeKeys == {"constructor"}
\* Values Math.floor(1000000000 + Math.random() * 9000000000).toString() returns.
AccountNumbers == {"1000000001", "1000000002"}
\* A number no signup generates (below the generator's range).
NoSuchAccount == "0000000000"
\* Values `OPAY-${Math.random().toString(36).substr(2, 8).toUpperCase()}` returns.
ReferralCodes == {"OPAY-A", "OPAY-B"}
\* A code no signup generates.
NoSuchCode == "NOPE"
\* Integer amounts of a transfer request: negative, zero, half a welcome
\* bonus, and more than a welcome bonus.
Amounts == {-5001, 0, 2500, 5001}

VARIABLES
    dbFile,     \* content of db.json: NoFile, Torn, or the stored { users } object
    now,        \* last value read from the system clock
    res,        \* the last response sent: endpoint, status, JSON body
    granted,    \* history: per username, the signup and referral credits of the 201 responses
    acked,      \* history: the transfers answered 200, oldest first
    faults,     \* history: storage failures so far
    page,       \* client: useState page, 'splash' | 'auth' | 'main'
    isLoginView,\* client: useState isLoginView
    mainView,   \* client: useState mainView, 'dashboard' | 'transfer'
    userData,   \* client: useState userData, Null or the account shown
    session,    \* client: localStorage 'opay_session', Null or an account
    pending     \* client: the async handler waiting for a response, Null when none

\* The server's variables and the client's.
server == <<dbFile, now, res, granted, acked, faults>>
client == <<page, isLoginView, mainView, userData, session, pending>>

vars == <<dbFile, now, res, granted, acked, faults, page, isLoginView, mainView, userData, session, pending>>

\* ---------------------------------------------------------------- JS values
\* !v for the request fields the handlers test: undefined and "" are falsy.
Falsy(v) == v \in {Undefined, ""}

\* ----------------------------------------------------------------- database
NoFile == [exists |-> FALSE]
\* db.json cut short by a crash inside fs.writeFileSync: not valid JSON.
Torn == [torn |-> TRUE]
EmptyDB == [users |-> <<>>]

\* db.users is a JS object: its keys keep insertion order (Object.keys,
\* Object.values), so it is a sequence of account records keyed by username.
UserIndex(db, username) ==
    LET S == {i \in DOMAIN db.users : db.users[i].username = username}
    IN  IF S = {} THEN 0 ELSE CHOOSE i \in S : TRUE

\* Mutant of HasUser: the duplicate check never fires.
HasUser_Never(db, username) == FALSE

\* db.users[username] is truthy: an account stored under that key, or a
\* member the parsed object inherits from Object.prototype.
HasUser(db, username) == UserIndex(db, username) # 0 \/ username \in PrototypeKeys

\* An object with no enumerable property of its own, as the inherited members are.
NoFields == [f \in {} |-> Undefined]

\* user.password for the truthy db.users[username]: undefined on an inherited member.
PasswordOf(db, username) ==
    IF UserIndex(db, username) # 0 THEN db.users[UserIndex(db, username)].password
    ELSE Undefined

\* Array.prototype.find over the values in key order: the first match, 0 for undefined.
FirstIndex(S) == IF S = {} THEN 0 ELSE CHOOSE i \in S : \A j \in S : i <= j

\* readDB: creates the file when it is missing, parses it; on any error
\* (ok = FALSE: the read throws; a torn file: JSON.parse throws) it logs and
\* returns an empty store.
readDB(file, ok) ==
    IF ~ok \/ file = Torn THEN EmptyDB
    ELSE IF file = NoFile THEN EmptyDB
    ELSE file

\* The file as readDB leaves it: a missing file is created empty.
FileAfterRead(file, ok) ==
    IF ok /\ file = NoFile THEN EmptyDB ELSE file

\* writeDB: overwrites the file with data; on error (ok = FALSE) it logs and
\* returns normally, the file unchanged.
writeDB(file, data, ok) ==
    IF ok THEN data ELSE file

\* Accounts currently persisted.
Store == readDB(dbFile, TRUE)
Accounts == {Store.users[i] : i \in DOMAIN Store.users}

\* -------------------------------------------------------------- transactions
Transaction(id, type, description, amount, date) ==
    [id |-> id, type |-> type, description |-> description,
     amount |-> amount, date |-> date]

\* Mutant of Unshift: push, the new record goes to the back.
Unshift_Push(list, tx) == Append(list, tx)

\* unshift: the new record goes to the front.
Unshift(list, tx) == <<tx>> \o list

\* The values n successive clock reads may return: never backwards.
ClockReads(n) ==
    {ts \in [1..n -> now..MaxClock] : \A i \in 1..(n - 1) : ts[i] <= ts[i + 1]}

\* Number of records in the store: each account and each of its transactions.
RECURSIVE StoreSize(_)
StoreSize(users) ==
    IF users = <<>> THEN 0
    ELSE 1 + Len(Head(users).transactions) + StoreSize(Tail(users))

\* ------------------------------------------------------------------- signup
\* Mutant of FindReferrer: the predicate assigns (=) instead of comparing
\* (===), so it is true of the first account whenever the code is truthy.
FindReferrer_Assigns(db, referralCode) == FirstIndex(DOMAIN db.users)

\* Line 76: the first username, in key order, whose account has this referral code.
FindReferrer(db, referralCode) ==
    FirstIndex({i \in DOMAIN db.users : db.users[i].referralCode = referralCode})

\* Lines 75, 77: a referral code was given and an account has it.
Referred(db, referralCode) ==
    ~Falsy(referralCode) /\ FindReferrer(db, referralCode) # 0

\* Mutant of Bonus: the hasCheat flag is ignored.
Bonus_Flat(referrer) == ReferralBonus

\* Line 79.
Bonus(referrer) == IF referrer.hasCheat THEN CheatBonus ELSE ReferralBonus

\* Lines 81-86: credit the referrer.
CreditReferrer(referrer, bonus, username, id, date) ==
    [referrer EXCEPT
        !.balance = @ + bonus,
        !.referrals = @ + 1,
        !.transactions = Unshift(@, Transaction(id, "credit",
                            <<"Referral Bonus for ", username>>, bonus, date))]

\* Mutant of NewAccount: the new user is created with the flag set.
NewAccount_Flagged(username, password, accountNumber, initialBalance, description, referralCode, id, date) ==
    [username |-> username,
     password |-> password,
     accountNumber |-> accountNumber,
     balance |-> initialBalance,
     safebox |-> 0,
     loanOwed |-> 0,
     transactions |-> <<Transaction(id, "credit", description, initialBalance, date)>>,
     referralCode |-> referralCode,
     referrals |-> 0,
     hasCheat |-> TRUE]

\* Lines 93-107: the record of the new user.
NewAccount(username, password, accountNumber, initialBalance, description, referralCode, id, date) ==
    [username |-> username,
     password |-> password,
     accountNumber |-> accountNumber,
     balance |-> initialBalance,
     safebox |-> 0,
     loanOwed |-> 0,
     transactions |-> <<Transaction(id, "credit", description, initialBalance, date)>>,
     referralCode |-> referralCode,
     referrals |-> 0,
     hasCheat |-> FALSE]

\* db.users[username] = account (line 93): a new key goes last, an existing key keeps its place.
SetUser(db, username, account) ==
    IF HasUser(db, username)
    THEN [db EXCEPT !.users[UserIndex(db, username)] = account]
    ELSE [db EXCEPT !.users = Append(@, account)]

\* Lines 71-107: the store after a signup that passed validation.
\* ts are the clock reads, in order; accountNumber and newCode the values
\* Math.random yields.
SignupDB(db, username, password, referralCode, accountNumber, newCode, ts) ==
    LET r == FindReferrer(db, referralCode)
    IN  IF Referred(db, referralCode)
        THEN LET bonus == Bonus(db.users[r])
                 db1 == [db EXCEPT !.users[r] =
                            CreditReferrer(@, bonus, username, ts[1], ts[2])]
             IN  SetUser(db1, username,
                    NewAccount(username, password, accountNumber, bonus,
                               <<"Referral Bonus from ", db.users[r].username>>,
                               newCode, ts[3], ts[4]))
        ELSE SetUser(db, username,
                    NewAccount(username, password, accountNumber, DefaultBonus,
                               <<"Welcome Bonus">>, newCode, ts[1], ts[2]))

\* The credits a 201 acknowledges: the new account's, and the referrer's when there is one.
SignupGrants(db, username, referralCode) ==
    LET r == FindReferrer(db, referralCode)
    IN  IF Referred(db, referralCode)
        THEN [granted EXCEPT ![db.users[r].username] = @ + Bonus(db.users[r]),
                             ![username] = Bonus(db.users[r])]
        ELSE [granted EXCEPT ![username] = DefaultBonus]

Respond(endpoint, status, body) ==
    res' = [endpoint |-> endpoint, status |-> status, body |-> body]

\* POST /api/signup, lines 59-111.  The account number, the referral code
\* (Math.random) and the clock reads are drawn where the handler draws them:
\* after validation.
Signup(username, password, referralCode, readOK, writeOK) ==
    LET db == readDB(dbFile, readOK)
        file == FileAfterRead(dbFile, readOK)
    IN  IF Falsy(username) \/ Falsy(password)
        THEN /\ Respond("signup", 400, [message |-> "Username and password are required."])
             /\ dbFile' = file
             /\ UNCHANGED <<now, granted, acked>>
        ELSE IF HasUser(db, username)
        THEN /\ Respond("signup", 409, [message |-> "Username already exists."])
             /\ dbFile' = file
             /\ UNCHANGED <<now, granted, acked>>
        ELSE \E accountNumber \in AccountNumbers, newCode \in ReferralCodes,
                ts \in ClockReads(IF Referred(db, referralCode) THEN 4 ELSE 2) :
                LET db2 == SignupDB(db, username, password, referralCode,
                                    accountNumber, newCode, ts)
                IN  /\ StoreSize(db2.users) <= MaxRecords
                    /\ dbFile' = writeDB(file, db2, writeOK)
                    /\ Respond("signup", 201,
                               [message |-> "User created successfully!",
                                user |-> db2.users[UserIndex(db2, username)]])
                    /\ now' = ts[Len(ts)]
                    /\ granted' = SignupGrants(db, username, referralCode)
                    /\ UNCHANGED acked

\* -------------------------------------------------------------------- login
\* const { password: _, ...userData } = user  (lines 125, 137): every field but password.
WithoutPassword(user) == [f \in (DOMAIN user) \ {"password"} |-> user[f]]

\* userData of the truthy db.users[username]: the enumerable own properties but password.
UserData(db, username) ==
    IF UserIndex(db, username) # 0
    THEN WithoutPassword(db.users[UserIndex(db, username)])
    ELSE NoFields

\* POST /api/login, lines 114-127.
Login(username, password, readOK) ==
    LET db == readDB(dbFile, readOK)
    IN  /\ dbFile' = FileAfterRead(dbFile, readOK)
        /\ UNCHANGED <<now, granted, acked>>
        /\ IF ~HasUser(db, username) \/ PasswordOf(db, username) # password
           THEN Respond("login", 401, [message |-> "Invalid credentials."])
           ELSE Respond("login", 200, [message |-> "Login successful",
                                      user |-> UserData(db, username)])

\* GET /api/user/:username, lines 130-139.
GetUser(username, readOK) ==
    LET db == readDB(dbFile, readOK)
    IN  /\ dbFile' = FileAfterRead(dbFile, readOK)
        /\ UNCHANGED <<now, granted, acked>>
        /\ IF ~HasUser(db, username)
           THEN Respond("user", 404, [message |-> "User not found."])
           ELSE Respond("user", 200, UserData(db, username))

\* ----------------------------------------------------------------- transfer
\* Line 147: the first account, in key order, with this account number.
FindRecipient(db, toAccountNumber) ==
    FirstIndex({i \in DOMAIN db.users : db.users[i].accountNumber = toAccountNumber})

Verdict(status, message) == [status |-> status, message |-> message]

\* Mutant of TransferCheck: the funds check comes before the recipient check.
TransferCheck_FundsFirst(db, s, r, amount) ==
    IF s = 0 THEN Verdict(404, "Sender not found.")
    ELSE IF db.users[s].balance < amount THEN Verdict(400, "Insufficient funds.")
    ELSE IF r = 0 THEN Verdict(404, "Recipient account not found.")
    ELSE IF db.users[s].username = db.users[r].username
         THEN Verdict(400, "Cannot transfer to yourself.")
    ELSE Verdict(200, "Transfer successful!")

\* Lines 149-152: the checks in the order the handler makes them; s and r
\* are the sender's and the recipient's positions, 0 when not found.
TransferCheck(db, s, r, amount) ==
    IF s = 0 THEN Verdict(404, "Sender not found.")
    ELSE IF r = 0 THEN Verdict(404, "Recipient account not found.")
    ELSE IF db.users[s].balance < amount THEN Verdict(400, "Insufficient funds.")
    ELSE IF db.users[s].username = db.users[r].username
         THEN Verdict(400, "Cannot transfer to yourself.")
    ELSE Verdict(200, "Transfer successful!")

\* Mutant of Debit: the balance is lowered, no transaction is recorded.
Debit_Unrecorded(sender, recipient, amount, id, date) ==
    [sender EXCEPT !.balance = @ - amount]

\* Lines 155, 159-165: the sender's side.
Debit(sender, recipient, amount, id, date) ==
    [sender EXCEPT
        !.balance = @ - amount,
        !.transactions = Unshift(@, Transaction(id, "debit",
                            <<"Transfer to ", recipient.username>>, amount, date))]

\* Mutant of Credit: the transaction is recorded, the balance is not raised.
Credit_BalanceKept(recipient, sender, amount, id, date) ==
    [recipient EXCEPT
        !.transactions = Unshift(@, Transaction(id, "credit",
                            <<"Transfer from ", sender.username>>, amount, date))]

\* Lines 156, 166-172: the recipient's side.
Credit(recipient, sender, amount, id, date) ==
    [recipient EXCEPT
        !.balance = @ + amount,
        !.transactions = Unshift(@, Transaction(id, "credit",
                            <<"Transfer from ", sender.username>>, amount, date))]

\* Mutant of TransferDB: the recipient's update is applied to the snapshot read
\* before the debit and written over it, so the debit is lost.
TransferDB_DebitLost(db, s, r, amount, ts) ==
    [db EXCEPT !.users[r] = Credit(@, db.users[s], amount, ts[3], ts[4])]

\* Lines 155-172: the store after a transfer that passed the checks (s # r).
TransferDB(db, s, r, amount, ts) ==
    [db EXCEPT !.users[s] = Debit(@, db.users[r], amount, ts[1], ts[2]),
               !.users[r] = Credit(@, db.users[s], amount, ts[3], ts[4])]

\* POST /api/transfer, lines 142-176.
Transfer(fromUsername, toAccountNumber, amount, readOK, writeOK) ==
    LET db == readDB(dbFile, readOK)
        file == FileAfterRead(dbFile, readOK)
        s == UserIndex(db, fromUsername)
        r == FindRecipient(db, toAccountNumber)
        verdict == TransferCheck(db, s, r, amount)
    IN  IF verdict.status # 200
        THEN /\ Respond("transfer", verdict.status, [message |-> verdict.message])
             /\ dbFile' = file
             /\ UNCHANGED <<now, granted, acked>>
        ELSE /\ StoreSize(db.users) + 2 <= MaxRecords
             /\ \E ts \in ClockReads(4) :
                    LET db2 == TransferDB(db, s, r, amount, ts)
                    IN  /\ dbFile' = writeDB(file, db2, writeOK)
                        /\ Respond("transfer", 200,
                                   [message |-> verdict.message,
                                    newBalance |-> db2.users[s].balance])
                        /\ now' = ts[4]
             /\ acked' = Append(acked, [from |-> fromUsername,
                                        to |-> db.users[r].username,
                                        amount |-> amount])
             /\ UNCHANGED granted

\* ------------------------------------------------------------ specification
NoResponse == [endpoint |-> "none", status |-> 0, body |-> [message |-> ""]]

\* null of the client's state and of localStorage.getItem.
Null == [null |-> TRUE]

\* The App component as mounted in a browser without a stored session
\* (useState initial values, lines 9-12; useEffect, lines 15-23).
ClientInit ==
    /\ page = "splash"
    /\ isLoginView = TRUE
    /\ mainView = "dashboard"
    /\ userData = Null
    /\ session = Null
    /\ pending = Null

\* The server starts with no db.json.
Init ==
    /\ dbFile = NoFile
    /\ now = 1
    /\ res = NoResponse
    /\ granted = [u \in Usernames |-> 0]
    /\ acked = <<>>
    /\ faults = 0
    /\ ClientInit

\* The server starts on a db.json kept from earlier runs, in which an operator
\* has set hasCheat on the one account it holds (no handler ever sets it).
SeededDB ==
    [users |-> <<[NewAccount("cy", "pw", "1000000001", DefaultBonus, <<"Welcome Bonus">>,
                             "OPAY-A", 1, 1) EXCEPT !.hasCheat = TRUE]>>]

InitSeeded ==
    /\ dbFile = SeededDB
    /\ now = 1
    /\ res = NoResponse
    /\ granted = [u \in Usernames |-> IF u = "cy" THEN DefaultBonus ELSE 0]
    /\ acked = <<>>
    /\ faults = 0
    /\ ClientInit

\* The client sends one request at a time: the next one leaves when the
\* response to the last has arrived.  Handlers run to completion one after
\* another and none reads res, so this reaches every store that concurrent
\* clients reach.
Idle == res = NoResponse

\* The response reaches the client.
Deliver ==
    /\ ~Idle
    /\ res' = NoResponse
    /\ UNCHANGED <<dbFile, now, granted, acked, faults, client>>

SignupRequest ==
    \E username \in NewUsernames \cup {"", Undefined},
       password \in Passwords \cup {"", Undefined},
       referralCode \in ReferralCodes \cup {NoSuchCode, "", Undefined} :
        Idle /\ Signup(username, password, referralCode, TRUE, TRUE)
             /\ UNCHANGED <<faults, client>>

LoginRequest ==
    \E username \in Usernames \cup PrototypeKeys \cup {Undefined},
       password \in Passwords \cup {OtherPassword, Undefined} :
        Idle /\ Login(username, password, TRUE) /\ UNCHANGED <<faults, client>>

GetUserRequest ==
    \E username \in Usernames \cup PrototypeKeys :
        Idle /\ GetUser(username, TRUE) /\ UNCHANGED <<faults, client>>

TransferRequest ==
    \E fromUsername \in Usernames,
       toAccountNumber \in AccountNumbers \cup {NoSuchAccount},
       amount \in Amounts :
        Idle /\ Transfer(fromUsername, toAccountNumber, amount, TRUE, TRUE)
             /\ UNCHANGED <<faults, client>>

Next ==
    \/ SignupRequest
    \/ LoginRequest
    \/ GetUserRequest
    \/ TransferRequest
    \/ Deliver

Spec == Init /\ [][Next]_vars

SpecSeeded == InitSeeded /\ [][Next]_vars

\* ---------------------------------------------------------- storage failures
\* Which of a handler's two storage calls fails: the read (readDB's catch
\* returns an empty store) or the write (writeDB's catch returns normally).
\* Each element is <<readOK, writeOK>>.
Failures == {<<FALSE, TRUE>>, <<TRUE, FALSE>>}

FaultySignupRequest ==
    \E username \in NewUsernames, password \in Passwords,
       referralCode \in ReferralCodes \cup {""}, f \in Failures :
        /\ Idle
        /\ Signup(username, password, referralCode, f[1], f[2])
        /\ ~f[2] => res'.status = 201
        /\ faults' = faults + 1
        /\ UNCHANGED client

FaultyLoginRequest ==
    \E username \in Usernames, password \in Passwords :
        /\ Idle
        /\ Login(username, password, FALSE)
        /\ faults' = faults + 1
        /\ UNCHANGED client

FaultyGetUserRequest ==
    \E username \in Usernames :
        /\ Idle
        /\ GetUser(username, FALSE)
        /\ faults' = faults + 1
        /\ UNCHANGED client

FaultyTransferRequest ==
    \E fromUsername \in Usernames, toAccountNumber \in AccountNumbers,
       amount \in Amounts, f \in Failures :
        /\ Idle
        /\ Transfer(fromUsername, toAccountNumber, amount, f[1], f[2])
        /\ ~f[2] => res'.status = 200
        /\ faults' = faults + 1
        /\ UNCHANGED client

\* What a signup handler that passed validation hands to writeDB (line 109),
\* with the clock value it read last.
SignupWrites(db) ==
    UNION {{[data |-> SignupDB(db, username, password, referralCode, accountNumber, newCode, ts),
             clock |-> ts[Len(ts)]] :
                accountNumber \in AccountNumbers, newCode \in ReferralCodes,
                ts \in ClockReads(IF Referred(db, referralCode) THEN 4 ELSE 2)} :
           username \in {u \in NewUsernames : ~HasUser(db, u)},
           password \in Passwords,
           referralCode \in ReferralCodes \cup {""}}

\* What a transfer handler that passed the checks hands to writeDB (line 174).
TransferWrites(db) ==
    UNION {{[data |-> TransferDB(db, UserIndex(db, in[1]), FindRecipient(db, in[2]), in[3], ts),
             clock |-> ts[4]] : ts \in ClockReads(4)} :
           in \in {t \in Usernames \X AccountNumbers \X Amounts :
                    TransferCheck(db, UserIndex(db, t[1]), FindRecipient(db, t[2]),
                                  t[3]).status = 200}}

\* The process dies inside fs.writeFileSync (lines 50, 109, 174) and is
\* restarted: no response is sent.  writeFileSync truncates db.json and then
\* writes the text, so the file is left as it was (the crash came before the
\* truncation), torn (truncated or partly written: not valid JSON), or
\* complete.
CrashDuringWrite ==
    /\ Idle
    /\ LET db == readDB(dbFile, TRUE)
           file == FileAfterRead(dbFile, TRUE)
       IN  \E w \in SignupWrites(db) \cup TransferWrites(db) :
                /\ StoreSize(w.data.users) <= MaxRecords
                /\ dbFile' \in {file, Torn, w.data}
                /\ now' = w.clock
    /\ res' = NoResponse
    /\ faults' = faults + 1
    /\ UNCHANGED <<granted, acked, client>>

\* A run of the server up to its MaxFaults-th storage failure.
MayFail == faults < MaxFaults

NextFaults ==
    \/ MayFail /\ SignupRequest
    \/ MayFail /\ LoginRequest
    \/ MayFail /\ GetUserRequest
    \/ MayFail /\ TransferRequest
    \/ MayFail /\ FaultySignupRequest
    \/ MayFail /\ FaultyLoginRequest
    \/ MayFail /\ FaultyGetUserRequest
    \/ MayFail /\ FaultyTransferRequest
    \/ MayFail /\ CrashDuringWrite
    \/ Deliver

SpecFaults == Init /\ [][NextFaults]_vars

\* ------------------------------------------------------------------- client
\* The React App of src/unnamed/part_000 in one browser, talking to the
\* server.  A fetch is handled by the server in the step that sends it and
\* its response waits in res until the client's continuation runs: what the
\* user does in between is what can interleave with an async handler.  The
\* user submits a form only when no earlier submission is still waiting.

\* response.ok
Ok(response) == response.status \in 200..299

\* Lines 15-23, no session stored: setTimeout(() => setPage('auth'), 2000).
SplashTimeout ==
    /\ page = "splash"
    /\ page' = "auth"
    /\ UNCHANGED <<server, isLoginView, mainView, userData, session, pending>>

\* Line 129: onClick={() => setIsLoginView(!isLoginView)}.
ToggleAuthView ==
    /\ page = "auth"
    /\ isLoginView' = ~isLoginView
    /\ UNCHANGED <<server, page, mainView, userData, session, pending>>

\* handleAuthAction, lines 26-45: up to the await of fetch.  Both inputs are
\* `required`, the referral code is left empty.
SubmitAuth ==
    /\ page = "auth" /\ pending = Null /\ Idle
    /\ \E username \in NewUsernames, password \in Passwords \cup {OtherPassword} :
            IF isLoginView
            THEN Login(username, password, TRUE)
            ELSE Signup(username, password, "", TRUE, TRUE)
    /\ pending' = [handler |-> "handleAuthAction", isLoginView |-> isLoginView]
    /\ UNCHANGED <<faults, page, isLoginView, mainView, userData, session>>

\* handleAuthAction, lines 47-63: after the response.
AuthResponse ==
    /\ pending # Null /\ pending.handler = "handleAuthAction"
    /\ IF ~Ok(res)
       THEN UNCHANGED <<page, isLoginView, userData, session>>
       ELSE IF pending.isLoginView
       THEN /\ session' = res.body.user
            /\ userData' = res.body.user
            /\ page' = "main"
            /\ UNCHANGED isLoginView
       ELSE /\ isLoginView' = TRUE
            /\ UNCHANGED <<page, userData, session>>
    /\ pending' = Null
    /\ res' = NoResponse
    /\ UNCHANGED <<dbFile, now, granted, acked, faults, mainView>>

\* handleLogout, lines 67-71; the button is in MainApp's header.
handleLogout ==
    /\ page = "main" /\ userData # Null
    /\ session' = Null
    /\ userData' = Null
    /\ page' = "auth"
    /\ UNCHANGED <<server, isLoginView, mainView, pending>>

\* setMainView from the dashboard's Transfer button and the Back button.
SetMainView ==
    /\ page = "main" /\ userData # Null
    /\ \E view \in {"dashboard", "transfer"} : view # mainView /\ mainView' = view
    /\ UNCHANGED <<server, page, isLoginView, userData, session, pending>>

\* handleTransfer, lines 190-207: the client-side checks, up to the await of
\* fetch.  The handler keeps the userData of the render it was created in.
SubmitTransfer ==
    /\ page = "main" /\ userData # Null /\ mainView = "transfer"
    /\ pending = Null /\ Idle
    /\ \E recipientAcc \in AccountNumbers \cup {NoSuchAccount}, amount \in Amounts :
            /\ amount > 0
            /\ userData.balance >= amount
            /\ Transfer(userData.username, recipientAcc, amount, TRUE, TRUE)
    /\ pending' = [handler |-> "handleTransfer", userData |-> userData]
    /\ UNCHANGED <<faults, page, isLoginView, mainView, userData, session>>

\* handleTransfer, lines 208-212, and refreshUserData, lines 74-77: after the
\* transfer's response, up to the await of the refresh's fetch.
\* refreshUserData tests and uses the userData of the render it was created
\* in, which is not null: MainApp is rendered only with a userData.
TransferResponse ==
    /\ pending # Null /\ pending.handler = "handleTransfer"
    /\ IF ~Ok(res)
       THEN /\ pending' = Null
            /\ res' = NoResponse
            /\ UNCHANGED <<dbFile, now, granted, acked>>
       ELSE /\ GetUser(pending.userData.username, TRUE)
            /\ pending' = [handler |-> "refreshUserData", userData |-> pending.userData]
    /\ UNCHANGED <<faults, page, isLoginView, mainView, userData, session>>

\* refreshUserData, lines 78-85, then handleTransfer, line 213: after the
\* refresh's response.
RefreshResponse ==
    /\ pending # Null /\ pending.handler = "refreshUserData"
    /\ IF Ok(res)
       THEN session' = res.body /\ userData' = res.body
       ELSE UNCHANGED <<session, userData>>
    /\ mainView' = "dashboard"
    /\ pending' = Null
    /\ res' = NoResponse
    /\ UNCHANGED <<dbFile, now, granted, acked, faults, page, isLoginView>>

\* The page is loaded again: the component state is the initial one, the
\* handlers that were waiting are gone, and the effect of lines 15-23 reads
\* the stored session.
Reload ==
    /\ page' = IF session # Null THEN "main" ELSE "splash"
    /\ userData' = session
    /\ isLoginView' = TRUE
    /\ mainView' = "dashboard"
    /\ pending' = Null
    /\ res' = NoResponse
    /\ UNCHANGED <<dbFile, now, granted, acked, faults, session>>

NextClient ==
    \/ SplashTimeout
    \/ ToggleAuthView
    \/ SubmitAuth
    \/ AuthResponse
    \/ handleLogout
    \/ SetMainView
    \/ SubmitTransfer
    \/ TransferResponse
    \/ RefreshResponse
    \/ Reload

SpecClient == Init /\ [][NextClient]_vars

\* =================================================================== claims
\* Helpers of the claims.  They read the persisted store and the response;
\* none of them is built from the handlers' own operators for the effect it
\* states.

\* A handler has just run: the step took the idle server to a response.
Handled(endpoint) == Idle /\ res'.endpoint = endpoint

Exists(username) == \E a \in Accounts : a.username = username

\* The account of a username that exists.
The(username) == CHOOSE a \in Accounts : a.username = username

RECURSIVE SumBalances(_)
SumBalances(users) ==
    IF users = <<>> THEN 0 ELSE Head(users).balance + SumBalances(Tail(users))

\* Total of the acknowledged transfers sent by (role "from") or to (role "to") a username.
RECURSIVE AckedTotal(_, _, _)
AckedTotal(log, role, username) ==
    IF log = <<>> THEN 0
    ELSE (IF Head(log)[role] = username THEN Head(log).amount ELSE 0)
         + AckedTotal(Tail(log), role, username)

TransferInputs == Usernames \X (AccountNumbers \cup {NoSuchAccount}) \X Amounts

SignupInputs ==
    (NewUsernames \cup {"", Undefined}) \X (Passwords \cup {"", Undefined})
        \X (ReferralCodes \cup {NoSuchCode, "", Undefined})

\* ----------------------------------------------------------------------- C1
\* C1: in every reachable state every account's balance is >= 0.
C1_BalanceNeverNegative == \A a \in Accounts : a.balance >= 0

\* ----------------------------------------------------------------------- C2
\* C2: whenever a transfer of amount a from X to account number n is answered
\* 200, X's balance decreases by exactly a, the balance of an account Y that
\* bears the number n increases by exactly a, every other account's balance is
\* unchanged, and the sum of all balances is the same before and after.
C2_TransferExact ==
    [][Handled("transfer") /\ res'.status = 200 =>
        \A in \in TransferInputs :
            Transfer(in[1], in[2], in[3], TRUE, TRUE) =>
                /\ Exists(in[1])
                /\ The(in[1])'.balance = The(in[1]).balance - in[3]
                /\ \E y \in Accounts :
                    /\ y.accountNumber = in[2]
                    /\ y.username # in[1]
                    /\ The(y.username)'.balance = y.balance + in[3]
                    /\ \A o \in Accounts :
                        o.username \notin {in[1], y.username} =>
                            The(o.username)'.balance = o.balance
                /\ SumBalances(Store.users)' = SumBalances(Store.users)
                /\ res'.body.newBalance = The(in[1])'.balance]_vars

\* A transfer of a positive amount was answered 200 in a store of three accounts.
C2_Witness ==
    /\ res.endpoint = "transfer" /\ res.status = 200
    /\ Cardinality(Accounts) = 3
    /\ acked # <<>> /\ acked[Len(acked)].amount > 0

\* ----------------------------------------------------------------------- C3
\* C3: no update is lost, in whatever order the handlers of concurrent
\* requests run: every account's balance is what it was granted at signup and
\* by referrals, minus every amount it sent in a transfer answered 200, plus
\* every amount sent to it in a transfer answered 200.
C3_NoLostUpdate ==
    \A a \in Accounts :
        a.balance = granted[a.username]
                    - AckedTotal(acked, "from", a.username)
                    + AckedTotal(acked, "to", a.username)

\* Two transfers of positive amounts that the sender's balance covered
\* together have debited the same sender.
C3_Witness ==
    /\ Len(acked) >= 2
    /\ acked[1].from = acked[2].from
    /\ acked[1].amount > 0 /\ acked[2].amount > 0
    /\ Exists(acked[1].from)
    /\ The(acked[1].from).balance >= 0

\* ----------------------------------------------------------------------- C4
\* C4: the user payload of a signup (201), a login (200) and a
\* GET /api/user/:username (200) response has no password field.
C4_NoPasswordInResponse ==
    /\ res.endpoint \in {"signup", "login"} /\ res.status \in {200, 201} =>
        "password" \notin DOMAIN res.body.user
    /\ res.endpoint = "user" /\ res.status = 200 =>
        "password" \notin DOMAIN res.body

\* ----------------------------------------------------------------------- C5
\* The bonus the specification documents for a referrer.
DocumentedBonus(referrer) == IF referrer.hasCheat THEN CheatBonus ELSE ReferralBonus

\* C5: a signup (201) whose referralCode is the referralCode of an existing
\* account credits the same bonus to both: an account r with that code gets
\* the bonus (10,000,000 when r.hasCheat, otherwise 1,000,000) added to its
\* balance and 1 added to its referrals, and the new account is created with
\* a balance equal to that bonus.
C5_ReferralCreditsBoth ==
    [][Handled("signup") /\ res'.status = 201 =>
        \A in \in SignupInputs :
            (/\ Signup(in[1], in[2], in[3], TRUE, TRUE)
             /\ \E a \in Accounts : a.referralCode = in[3]) =>
                \E r \in Accounts :
                    /\ r.referralCode = in[3]
                    /\ The(r.username)'.balance = r.balance + DocumentedBonus(r)
                    /\ The(r.username)'.referrals = r.referrals + 1
                    /\ The(in[1])'.balance = DocumentedBonus(r)]_vars

\* A signup referred by an ordinary account has just been credited 1,000,000,
\* and its referrer had itself been created with the 10,000,000 of a flagged
\* referrer, who holds that bonus too.
C5_Witness ==
    /\ res.endpoint = "signup" /\ res.status = 201
    /\ res.body.user.balance = ReferralBonus
    /\ \E a \in Accounts : ~a.hasCheat /\ a.balance = CheatBonus + ReferralBonus
                           /\ a.referrals = 1
    /\ \E c \in Accounts : c.hasCheat /\ c.balance = DefaultBonus + CheatBonus
                           /\ c.referrals = 1

\* ----------------------------------------------------------------------- C6
\* C6: a signup (201) with a missing referralCode, or with one that no
\* existing account has, creates the new account with balance exactly 5000
\* and leaves every existing account as it was.
C6_UnreferredSignup ==
    [][Handled("signup") /\ res'.status = 201 =>
        \A in \in SignupInputs :
            (/\ Signup(in[1], in[2], in[3], TRUE, TRUE)
             /\ ~\E a \in Accounts : a.referralCode = in[3]) =>
                /\ The(in[1])'.balance = DefaultBonus
                /\ \A a \in Accounts : a \in Accounts']_vars

\* An unreferred signup has been answered 201 beside accounts that existed
\* before it, one of them with a referral history of its own.
C6_Witness ==
    /\ res.endpoint = "signup" /\ res.status = 201
    /\ res.body.user.balance = DefaultBonus
    /\ Cardinality(Accounts) = 3
    /\ \E a \in Accounts : a.referrals = 1

\* ----------------------------------------------------------------------- C7
\* C7: a transfer from an existing sender to an account number that no
\* account has is answered 404 "Recipient account not found." and leaves the
\* store (the sender and every other account) unchanged.
C7_UnknownRecipient ==
    [][Handled("transfer") =>
        ((\E in \in TransferInputs :
            /\ Exists(in[1])
            /\ ~\E a \in Accounts : a.accountNumber = in[2]
            /\ Transfer(in[1], in[2], in[3], TRUE, TRUE)) =>
                /\ res'.status = 404
                /\ res'.body.message = "Recipient account not found."
                /\ Store' = Store)]_vars

\* A transfer of an existing sender was answered RecipientNotFound.
C7_Witness ==
    /\ res.endpoint = "transfer" /\ res.status = 404
    /\ res.body.message = "Recipient account not found."
    /\ Accounts # {}

\* ----------------------------------------------------------------------- C8
\* C8: a transfer whose toAccountNumber is the sender's own account number is
\* rejected for every amount and changes no account.
C8_SelfTransferRejected ==
    [][Handled("transfer") =>
        \A in \in TransferInputs :
            (/\ Transfer(in[1], in[2], in[3], TRUE, TRUE)
             /\ Exists(in[1])
             /\ The(in[1]).accountNumber = in[2]) =>
                /\ res'.status # 200
                /\ Store' = Store]_vars

\* ----------------------------------------------------------------------- C9
\* The error the documented order gives: sender exists, recipient exists, not
\* self, amount > 0, sufficient funds.
DocumentedVerdict(from, to, amount) ==
    LET r == FindRecipient(Store, to)
    IN  IF ~Exists(from) THEN "Sender not found."
        ELSE IF r = 0 THEN "Recipient account not found."
        ELSE IF Store.users[r].username = from THEN "Cannot transfer to yourself."
        ELSE IF amount <= 0 THEN "amount not positive"
        ELSE IF The(from).balance < amount THEN "Insufficient funds."
        ELSE "Transfer successful!"

\* C9: a transfer is answered with the error of the earliest failing check in
\* the order SenderNotFound, RecipientNotFound, SelfTransfer, amount > 0,
\* InsufficientFunds.
C9_ValidationOrder ==
    [][Handled("transfer") =>
        \A in \in TransferInputs :
            Transfer(in[1], in[2], in[3], TRUE, TRUE) =>
                LET documented == DocumentedVerdict(in[1], in[2], in[3])
                IN  IF documented = "amount not positive"
                    THEN /\ res'.status = 400
                         /\ res'.body.message \notin
                                {"Insufficient funds.", "Cannot transfer to yourself."}
                    ELSE res'.body.message = documented]_vars

\* ---------------------------------------------------------------------- C10
\* A request field that is empty or missing.
Missing(v) == v = "" \/ v = Undefined

\* C10: a signup with an empty or missing username or password is answered
\* 400, and a signup with both fields present and a username that exists is
\* answered 409; in both cases the store is unchanged (nothing overwritten,
\* created or credited), whatever referralCode was supplied.
C10_RejectedSignup ==
    [][Handled("signup") =>
        /\ (\E in \in SignupInputs :
                /\ Missing(in[1]) \/ Missing(in[2])
                /\ Signup(in[1], in[2], in[3], TRUE, TRUE)) =>
                    res'.status = 400 /\ Store' = Store
        /\ (\E in \in SignupInputs :
                /\ ~Missing(in[1]) /\ ~Missing(in[2]) /\ Exists(in[1])
                /\ Signup(in[1], in[2], in[3], TRUE, TRUE)) =>
                    res'.status = 409 /\ Store' = Store]_vars

\* A duplicate signup was answered 409 while two accounts, each with a
\* referral code the request could have named, exist.
C10_Witness ==
    /\ res.endpoint = "signup" /\ res.status = 409
    /\ Cardinality(Accounts) = 2

\* ---------------------------------------------------------------------- C11
\* C11: in every reachable state no two accounts have the same accountNumber,
\* whatever values the account-number generator returns at signup.
C11_UniqueAccountNumbers ==
    \A i, j \in DOMAIN Store.users :
        Store.users[i].accountNumber = Store.users[j].accountNumber => i = j

\* ---------------------------------------------------------------------- C15
\* C15: every transaction record stored in any account has amount > 0.
C15_AmountsPositive ==
    \A a \in Accounts : \A i \in DOMAIN a.transactions : a.transactions[i].amount > 0

\* ---------------------------------------------------------------------- C18
\* C18: in every account the transaction ids are pairwise distinct and
\* strictly decreasing from the newest (front) to the oldest, for a clock that
\* never goes backwards but may return the same value twice.
C18_IdsStrictlyDecreasing ==
    \A a \in Accounts : \A i, j \in DOMAIN a.transactions :
        i < j => a.transactions[i].id > a.transactions[j].id

\* ---------------------------------------------------------------------- C16
\* list is the tail end of longer: longer is list with records added in front.
IsSuffix(list, longer) ==
    /\ Len(list) <= Len(longer)
    /\ SubSeq(longer, Len(longer) - Len(list) + 1, Len(longer)) = list

\* C16: every operation leaves each account's existing transaction records
\* unchanged and in the same order, and only adds records at the front of the
\* list: the old list is the tail end of the new one.
C16_AppendOnly ==
    [][\A a \in Accounts : \E b \in Accounts' :
            /\ b.username = a.username
            /\ IsSuffix(a.transactions, b.transactions)]_vars

\* An account holds three records, the newest a transfer's and the oldest the
\* credit it was created with.
C16_Witness ==
    \E a \in Accounts :
        /\ Len(a.transactions) >= 3
        /\ a.transactions[1].description[1] \in {"Transfer to ", "Transfer from "}
        /\ a.transactions[Len(a.transactions)].amount = DefaultBonus
        /\ a.transactions[Len(a.transactions)].description = <<"Welcome Bonus">>

\* ---------------------------------------------------------------------- C19
\* Credits minus debits of a transaction list.
RECURSIVE LedgerTotal(_)
LedgerTotal(list) ==
    IF list = <<>> THEN 0
    ELSE (IF Head(list).type = "credit" THEN Head(list).amount ELSE 0 - Head(list).amount)
         + LedgerTotal(Tail(list))

\* C19: each account's balance is the sum of the amounts of its credit
\* transactions minus the sum of the amounts of its debit transactions.
C19_LedgerConsistent ==
    \A a \in Accounts : a.balance = LedgerTotal(a.transactions)

\* An account that was credited a referral bonus has since sent a positive
\* amount, which the recipient's list records as a credit.
C19_Witness ==
    \E a, b \in Accounts :
        /\ \E i \in DOMAIN a.transactions : a.transactions[i].amount = ReferralBonus
        /\ a.transactions[1].type = "debit" /\ a.transactions[1].amount > 0
        /\ b.transactions[1].description = <<"Transfer from ", a.username>>
        /\ b.transactions[1].amount = a.transactions[1].amount

\* ---------------------------------------------------------------------- C17
LoginInputs ==
    (Usernames \cup PrototypeKeys \cup {Undefined})
        \X (Passwords \cup {OtherPassword, Undefined})

\* C17: login is answered 200 with the account exactly when the username
\* exists in the store and the supplied password equals the stored one; it is
\* answered 401 in every other case, and it never changes the store.
C17_LoginExact ==
    [][Handled("login") =>
        \A in \in LoginInputs :
            Login(in[1], in[2], TRUE) =>
                /\ res'.status = 200 <=>
                        (Exists(in[1]) /\ The(in[1]).password = in[2])
                /\ res'.status # 200 => res'.status = 401
                /\ Store' = Store]_vars

\* ---------------------------------------------------------------------- C12
\* C12: every success response corresponds to a change committed to the
\* persisted store, also when the write fails: after a signup answered 201 the
\* account of the response is in the store, and after a transfer answered 200
\* the sender's stored record has one more transaction and the newBalance of
\* the response.
C12_SuccessIsCommitted ==
    [][/\ Handled("signup") /\ res'.status = 201 => res'.body.user \in Accounts'
       /\ Handled("transfer") /\ res'.status = 200 =>
            \E a \in Accounts : \E b \in Accounts' :
                /\ a.username = acked'[Len(acked')].from
                /\ b.username = a.username
                /\ Len(b.transactions) = Len(a.transactions) + 1
                /\ b.balance = res'.body.newBalance]_vars

\* ---------------------------------------------------------------------- C13
\* C13: no request deletes an account or changes its username or
\* accountNumber, also when readDB falls back to an empty store after a read
\* error: every account in the store before a handler runs is in the store,
\* with the same accountNumber, after it.
C13_AccountsPermanent ==
    [][Idle /\ ~Idle' =>
        \A a \in Accounts : \E b \in Accounts' :
            b.username = a.username /\ b.accountNumber = a.accountNumber]_vars

\* ---------------------------------------------------------------------- C14
\* C14: a crash in the middle of writing the store leaves every committed
\* account readable after the restart, with the old content or the new: its
\* transactions are the committed ones, with at most the interrupted
\* request's records in front, and its balance is their total.
C14_CrashKeepsCommitted ==
    [][Idle /\ Idle' /\ faults' # faults =>
        \A a \in Accounts : \E b \in Accounts' :
            /\ b.username = a.username
            /\ IsSuffix(a.transactions, b.transactions)
            /\ b.balance = LedgerTotal(b.transactions)]_vars

\* ---------------------------------------------------------------------- C20
\* C20: after handleLogout the stored session stays absent and userData
\* stays null until the next successful login, whenever the response of a
\* refreshUserData fetch started before the logout arrives.  The page is
\* 'main' only from a successful login (or a load with a stored session) to
\* the logout, so: while the page is not 'main' there is no session.
C20_LoggedOutStaysLoggedOut ==
    page # "main" => session = Null /\ userData = Null

\* ---------------------------------------------------------------------- C21
\* C21: starting from an empty store, hasCheat is false for every account in
\* every reachable state, and every referral bonus ever credited, to a
\* referrer or to a referred new account, is exactly 1,000,000.
C21_NoCheatFromEmptyStore ==
    \A a \in Accounts :
        /\ ~a.hasCheat
        /\ \A i \in DOMAIN a.transactions :
                a.transactions[i].description[1] \in {"Referral Bonus for ", "Referral Bonus from "}
                    => a.transactions[i].amount = ReferralBonus

\* A referrer created in the empty store has been credited for a referral,
\* and the account it referred was created with the same bonus.
C21_Witness ==
    \E a, b \in Accounts :
        /\ a.referrals = 1
        /\ a.balance = DefaultBonus + ReferralBonus
        /\ a.transactions[1].description = <<"Referral Bonus for ", b.username>>
        /\ b.transactions[Len(b.transactions)].description = <<"Referral Bonus from ", a.username>>
        /\ b.transactions[Len(b.transactions)].amount = ReferralBonus

====
